---- MODULE Spec2Model ----
(***************************************************************************)
(* halgo: the navigator of HAL APIs.                                       *)
(*                                                                         *)
(* A navigator value is a root URI, a path of Operations (pointers to      *)
(* follow/extract structs, each owning a header map), a session header map *)
(* and an HTTP client.  Chaining methods build navigator values; a         *)
(* terminal method resolves the path hop by hop against the HTTP client    *)
(* and issues one last request.                                            *)
(*                                                                         *)
(* Go's reference types are modelled by two heaps: `ops` holds the         *)
(* follow/extract structs a path points to, `sess` holds the session       *)
(* header maps.  A navigator value holds indices into them, so that two    *)
(* values sharing a pointer or a map share the index.                      *)
(*                                                                         *)
(* A string is a sequence of tokens: "http://h/a/{id}" is                  *)
(* <<"http://h", "/", "a", "/", "{id}">> and "" is <<>>.                   *)
(***************************************************************************)
EXTENDS Integers, Sequences, FiniteSets, TLC

\* ------------------------------------------------------------- bounds
MaxNavs == 3
MaxPath == 2
MaxCalls == 1
MaxVals == 2

\* the goroutines that use navigators
Callers == {1, 2}

\* ------------------------------------------------------------- strings
EmptyString == <<>>

\* origins a URL string can start with: scheme, credentials and host;
\* "http:" is a scheme with no authority (as in http:/2nd)
Origins == {"http://h", "http://u@h", "http://g", "http://u@g", "http:"}

OriginParts(o) ==
    [scheme |-> "http",
     user |-> IF o \in {"http://u@h", "http://u@g"} THEN "u" ELSE "",
     host |-> IF o \in {"http://h", "http://u@h"} THEN "h"
              ELSE IF o = "http:" THEN "" ELSE "g"]

OriginOf(scheme, user, host) ==
    CHOOSE o \in Origins :
        OriginParts(o) = [scheme |-> scheme, user |-> user, host |-> host]

\* the token url.Parse rejects (an invalid escape)
BadEscape == "%zz"

\* template expressions, and the token uritemplates.Parse rejects
TemplateVars == {"{id}"}
BadTemplate == "{id"
VarName(tok) == "id"

RootUri == <<"http://h">>
Roots == {RootUri, <<"http://u@g">>}

\* net/url: Parse.  ok = FALSE is the parse error.
UrlParse(s) ==
    IF \E i \in 1..Len(s) : s[i] = BadEscape
    THEN [ok |-> FALSE, scheme |-> "", user |-> "", host |-> "", path |-> <<>>]
    ELSE IF Len(s) > 0 /\ s[1] \in Origins
    THEN [ok |-> TRUE, scheme |-> OriginParts(s[1]).scheme,
          user |-> OriginParts(s[1]).user, host |-> OriginParts(s[1]).host,
          path |-> Tail(s)]
    ELSE [ok |-> TRUE, scheme |-> "", user |-> "", host |-> "", path |-> s]

\* net/url: URL.IsAbs
IsAbs(u) == u.scheme # ""

\* net/url: URL.String.  A path that does not start with "/" gets one when
\* the URL has a host.
UrlString(u) ==
    IF u.scheme = "" /\ u.host = "" THEN u.path
    ELSE <<OriginOf(u.scheme, u.user, u.host)>> \o
         (IF Len(u.path) > 0 /\ u.path[1] # "/" /\ u.host # ""
          THEN <<"/">> \o u.path ELSE u.path)

\* ------------------------------------------------------------- headers
HNames == {"X"}
HVals == {"1", "2"}
AcceptValue == "application/hal+json, application/json"
ReqHNames == HNames \cup {"Accept", "Content-Type"}

\* http.Header{}: no name has a value
EmptyHeader == [k \in ReqHNames |-> <<>>]

\* http.Header.Set and http.Header.Add
\* http.Header.Set keeping the values the name had
HeaderSetKeeping(h, k, v) == [h EXCEPT ![k] = Append(@, v)]

HeaderSet(h, k, v) == [h EXCEPT ![k] = <<v>>]
HeaderAdd(h, k, v) == [h EXCEPT ![k] = Append(@, v)]

RECURSIVE mergeHeaders(_, _)
mergeHeaders(reqHeader, headers) ==
    IF headers = <<>> THEN reqHeader
    ELSE mergeHeaders([k \in ReqHNames |-> reqHeader[k] \o Head(headers)[k]],
                      Tail(headers))

\* a request built without newHalRequest's Accept
plainRequestHeader == EmptyHeader

\* newHalRequest: the header of the request it builds
newHalRequestHeader == HeaderAdd(EmptyHeader, "Accept", AcceptValue)

\* ------------------------------------------------------------- errors
\* An error value: its Go type and the tokens of its fields.
NoErr == [type |-> "nil", arg |-> <<>>]
IsErr(e) == e.type # "nil"

LinkNotFoundError(rel) == [type |-> "LinkNotFoundError", arg |-> <<rel>>]
InvalidUrlError(url) == [type |-> "InvalidUrlError", arg |-> url]
\* the error the injected client returns
TransportError == [type |-> "transport", arg |-> <<"connection refused">>]
ReadError == [type |-> "io", arg |-> <<"unexpected EOF">>]
JsonError == [type |-> "json.SyntaxError", arg |-> <<"invalid character">>]
UrlParseError == [type |-> "url.Error", arg |-> <<"invalid URL escape">>]
TemplateError == [type |-> "uritemplates", arg |-> <<"malformed template">>]
\* a runtime panic (index out of range), not an error value
Panic == [type |-> "panic", arg |-> <<"index out of range">>]

\* error.Error()
ErrorString(e) ==
    IF e.type = "LinkNotFoundError"
    THEN <<"Response didn't contain link with relation: ">> \o e.arg
    ELSE IF e.type = "InvalidUrlError" THEN <<"Invalid URL: ">> \o e.arg
    ELSE e.arg

\* fmt.Errorf(prefix + "%v", err): a new error value of another type
Errorf(prefix, e) == [type |-> "errorString", arg |-> <<prefix>> \o ErrorString(e)]

\* a (value, error) result
Ok(v) == [err |-> NoErr, val |-> v]
Fail(e) == [err |-> e, val |-> EmptyString]

\* makeAbsoluteIfNecessary leaving the credentials of the root out
makeAbsoluteNoUser(current, root) ==
    LET currentUri == UrlParse(current)
        rootUri == UrlParse(root)
    IN  IF ~currentUri.ok THEN Fail(UrlParseError)
        ELSE IF IsAbs(currentUri) THEN Ok(current)
        ELSE IF ~rootUri.ok THEN Fail(UrlParseError)
        ELSE Ok(UrlString([currentUri EXCEPT !.scheme = rootUri.scheme,
                                             !.host = rootUri.host]))

makeAbsoluteIfNecessary(current, root) ==
    LET currentUri == UrlParse(current)
        rootUri == UrlParse(root)
    IN  IF ~currentUri.ok THEN Fail(UrlParseError)
        ELSE IF IsAbs(currentUri) THEN Ok(current)
        ELSE IF ~rootUri.ok THEN Fail(UrlParseError)
        ELSE Ok(UrlString([currentUri EXCEPT !.scheme = rootUri.scheme,
                                             !.host = rootUri.host,
                                             !.user = rootUri.user]))

\* ------------------------------------------------------------- links
Rels == {"a", "b"}

\* P: the parameters of a template expansion; nil is the empty map
NoParams == [v \in {} |-> "1"]
IdParams == [v \in {"id"} |-> "1"]
ParamChoices == {NoParams, IdParams}

Link(href) == [Href |-> href, Templated |-> FALSE]

\* Links{}: the Items map is nil
NoLinks == [r \in {} |-> <<>>]

\* the form-style query expressions of a template and their variables
QueryVars == {"{?q}", "{?q,page}"}
QueryNames(tok) == IF tok = "{?q}" THEN <<"q">> ELSE <<"q", "page">>

\* the expansion of a query expression with ? before every variable
RECURSIVE QueryPairsNoAmpersand(_, _, _)
QueryPairsNoAmpersand(names, params, sep) ==
    IF names = <<>> THEN <<>>
    ELSE IF Head(names) \in DOMAIN params
         THEN <<sep, Head(names), "=", params[Head(names)]>>
                  \o QueryPairsNoAmpersand(Tail(names), params, sep)
         ELSE QueryPairsNoAmpersand(Tail(names), params, sep)

\* the expansion of a query expression: ?name=value for the first variable
\* that has a value, &name=value for the later ones
RECURSIVE QueryPairs(_, _, _)
QueryPairs(names, params, sep) ==
    IF names = <<>> THEN <<>>
    ELSE IF Head(names) \in DOMAIN params
         THEN <<sep, Head(names), "=", params[Head(names)]>>
                  \o QueryPairs(Tail(names), params, "&")
         ELSE QueryPairs(Tail(names), params, sep)

\* uritemplates: Parse then Expand.  A variable without a value expands to
\* nothing.
RECURSIVE Expand(_, _)
Expand(template, params) ==
    IF template = <<>> THEN <<>>
    ELSE (IF Head(template) \in TemplateVars
          THEN (IF VarName(Head(template)) \in DOMAIN params
                THEN <<params[VarName(Head(template))]>> ELSE <<>>)
          ELSE IF Head(template) \in QueryVars
          THEN QueryPairs(QueryNames(Head(template)), params, "?")
          ELSE <<Head(template)>>) \o Expand(Tail(template), params)

TemplateParses(href) == \A i \in 1..Len(href) : href[i] # BadTemplate

\* Links.HrefParams taking the last link of the relation
HrefParamsOfLast(items, rel, params) ==
    IF rel \in DOMAIN items
    THEN IF Len(items[rel]) = 0 THEN Fail(Panic)
         ELSE LET link == items[rel][Len(items[rel])]
              IN  IF ~TemplateParses(link.Href)
                  THEN Fail(TemplateError)
                  ELSE Ok(Expand(link.Href, params))
    ELSE Ok(EmptyString)

\* Links.HrefParams: [err, val]
HrefParams(items, rel, params) ==
    IF rel \in DOMAIN items
    THEN IF Len(items[rel]) = 0 THEN Fail(Panic)
         ELSE LET link == items[rel][1]
              IN  IF ~TemplateParses(link.Href)
                  THEN Fail(TemplateError)
                  ELSE Ok(Expand(link.Href, params))
    ELSE Ok(EmptyString)

\* Links.Href
Href(items, rel) == HrefParams(items, rel, NoParams)

\* ------------------------------------------------------ links: building
\* Links.Add storing the given links in place of the relation's LinkSet
LinksAddReplacing(items, rel, links) ==
    [r \in DOMAIN items \cup {rel} |-> IF r = rel THEN links ELSE items[r]]

\* Links.Add keeping the relation it was given and no other
LinksAddAlone(items, rel, links) ==
    LET set == IF rel \in DOMAIN items THEN items[rel] \o links ELSE links
    IN  [r \in {rel} |-> set]

\* Links.Add(rel, links...): the Items map is made when it is nil; the links
\* are appended to the relation's LinkSet, or copied into a new one
LinksAdd(items, rel, links) ==
    LET set == IF rel \in DOMAIN items THEN items[rel] \o links ELSE links
    IN  [r \in DOMAIN items \cup {rel} |-> IF r = rel THEN set ELSE items[r]]

\* -------------------------------------------------------------- JSON
\* A JSON value: its kind, the tokens of a literal, the members of an object
\* in the order of the text, as <<[k, v], ...>>, and the elements of an
\* array; "invalid" is a text that is no JSON.
JValue(t, s, members, elems) ==
    [t |-> t, s |-> s, members |-> members, elems |-> elems]
JString(tokens) == JValue("string", tokens, <<>>, <<>>)
JBool(b) == JValue("bool", <<IF b THEN "true" ELSE "false">>, <<>>, <<>>)
\* a number, null, a text that is no JSON
JLiteral(t) == JValue(t, <<>>, <<>>, <<>>)
JObject(members) == JValue("object", <<>>, members, <<>>)
JArray(elems) == JValue("array", <<>>, <<>>, elems)
Member(k, v) == [k |-> k, v |-> v]

\* the JSON kind found, the Go type wanted and the field it was for
UnmarshalTypeError(value, type, field) ==
    [type |-> "json.UnmarshalTypeError", arg |-> <<value, type, field>>]

\* json.Marshal of a Link: href always, templated unless it is false
LinkMarshal(link) ==
    JObject(<<Member("href", JString(link.Href))>>
            \o IF link.Templated
               THEN <<Member("templated", JBool(link.Templated))>> ELSE <<>>)

\* json.Marshal of a []Link
SliceMarshal(links) == JArray([i \in 1..Len(links) |-> LinkMarshal(links[i])])

\* LinkSet.MarshalJSON writing an array whatever the length
MarshalAlwaysArray(l) == SliceMarshal(l)

\* LinkSet.MarshalJSON
MarshalJSON(l) == IF Len(l) = 1 THEN LinkMarshal(l[1]) ELSE SliceMarshal(l)

\* the decoder keeps the first error and goes on
saveError(r, e) == IF IsErr(r.err) THEN r ELSE [r EXCEPT !.err = e]

\* json.Unmarshal of the members of an object into a Link
RECURSIVE decodeMembers(_, _)
decodeMembers(members, r) ==
    IF members = <<>> THEN r
    ELSE LET m == Head(members)
             want == IF m.k = "href" THEN "string"
                     ELSE IF m.k = "templated" THEN "bool" ELSE ""
             next == IF want = "" \/ m.v.t = "null" THEN r
                     ELSE IF m.v.t # want
                     THEN saveError(r, UnmarshalTypeError(m.v.t, want, m.k))
                     ELSE IF m.k = "href" THEN [r EXCEPT !.val.Href = m.v.s]
                     ELSE [r EXCEPT !.val.Templated = (m.v.s = <<"true">>)]
         IN  decodeMembers(Tail(members), next)

\* json.Unmarshal(d, &single) with single a Link: [err, val]
decodeLink(d, single) ==
    IF d.t = "invalid" THEN [err |-> JsonError, val |-> single]
    ELSE IF d.t = "null" THEN Ok(single)
    ELSE IF d.t = "object" THEN decodeMembers(d.members, Ok(single))
    ELSE [err |-> UnmarshalTypeError(d.t, "Link", ""), val |-> single]

\* the elements of an array decoded one after the other
RECURSIVE decodeElems(_, _)
decodeElems(elems, r) ==
    IF elems = <<>> THEN r
    ELSE LET e == decodeLink(Head(elems), Link(EmptyString))
         IN  decodeElems(Tail(elems),
                         saveError([r EXCEPT !.val = Append(@, e.val)], e.err))

\* json.Unmarshal(d, &multiple) with multiple a []Link: [err, val]
decodeSlice(d, multiple) ==
    IF d.t = "invalid" THEN [err |-> JsonError, val |-> multiple]
    ELSE IF d.t = "null" THEN Ok(<<>>)
    ELSE IF d.t = "array" THEN decodeElems(d.elems, Ok(<<>>))
    ELSE [err |-> UnmarshalTypeError(d.t, "[]Link", ""), val |-> multiple]

\* LinkSet.UnmarshalJSON giving up after the single link object
UnmarshalNoRetry(l, d) ==
    LET first == decodeLink(d, Link(EmptyString))
    IN  IF ~IsErr(first.err) THEN Ok(<<first.val>>)
        ELSE [err |-> first.err, val |-> l]

\* LinkSet.UnmarshalJSON(d) on the receiver l: [err, val], val the receiver
\* afterwards
UnmarshalJSON(l, d) ==
    LET first == decodeLink(d, Link(EmptyString))
        second == decodeSlice(d, <<>>)
    IN  IF ~IsErr(first.err) THEN Ok(<<first.val>>)
        ELSE IF first.err.type # "json.UnmarshalTypeError"
        THEN [err |-> first.err, val |-> l]
        ELSE IF ~IsErr(second.err) THEN Ok(second.val)
        ELSE [err |-> second.err, val |-> l]

\* ------------------------------------------------- links: serialisation
\* the relations in the order json.Marshal writes the keys of a map
LinkRels == {"find", "next", "self"}
SortedRels == <<"find", "next", "self">>

RECURSIVE itemsMembers(_, _)
itemsMembers(items, rels) ==
    IF rels = <<>> THEN <<>>
    ELSE (IF Head(rels) \in DOMAIN items
          THEN <<Member(Head(rels), MarshalJSON(items[Head(rels)]))>>
          ELSE <<>>) \o itemsMembers(items, Tail(rels))

\* json.Marshal of a Links whose `_links` member is written always
LinksMarshalAlways(items) ==
    JObject(<<Member("_links", JObject(itemsMembers(items, SortedRels)))>>)

\* json.Marshal of a Links: Items is `json:"_links,omitempty"`
LinksMarshal(items) ==
    JObject(IF DOMAIN items = {} THEN <<>>
            ELSE <<Member("_links", JObject(itemsMembers(items, SortedRels)))>>)

\* the members of a `_links` object decoded into the Items map, each value by
\* LinkSet.UnmarshalJSON; the first error ends the decoding
RECURSIVE decodeItems(_, _)
decodeItems(members, r) ==
    IF members = <<>> THEN r
    ELSE LET m == Head(members)
             set == UnmarshalJSON(<<>>, m.v)
         IN  IF IsErr(set.err) THEN [r EXCEPT !.err = set.err]
             ELSE decodeItems(Tail(members),
                      [r EXCEPT !.val = [k \in DOMAIN @ \cup {m.k} |->
                                            IF k = m.k THEN set.val ELSE @[k]]])

\* the members of a document decoded into a Links: an error of a LinkSet
\* ends the decoding, a `_links` member of the wrong kind is kept as the
\* error and skipped
RECURSIVE decodeDocMembers(_, _)
decodeDocMembers(members, r) ==
    IF members = <<>> THEN r
    ELSE LET m == Head(members)
             isItems == m.k = "_links" /\ m.v.t = "object"
             sets == decodeItems(m.v.members, [r EXCEPT !.err = NoErr])
         IN  IF isItems /\ IsErr(sets.err) THEN sets
             ELSE IF isItems
             THEN decodeDocMembers(Tail(members), [r EXCEPT !.val = sets.val])
             ELSE IF m.k # "_links" \/ m.v.t = "null"
             THEN decodeDocMembers(Tail(members), r)
             ELSE decodeDocMembers(Tail(members),
                      saveError(r, UnmarshalTypeError(m.v.t, "map", m.k)))

\* json.Unmarshal(d, &links) with links a Links: [err, val]
LinksUnmarshal(d, items) ==
    IF d.t = "invalid" THEN [err |-> JsonError, val |-> items]
    ELSE IF d.t = "null" THEN Ok(items)
    ELSE IF d.t = "object" THEN decodeDocMembers(d.members, Ok(items))
    ELSE [err |-> UnmarshalTypeError(d.t, "Links", ""), val |-> items]

\* ------------------------------------------------- links: the calls
\* the most links a caller puts into one Links
MaxLinks == 3

\* the number of links of a Links
RECURSIVE countLinks(_, _)
countLinks(items, rels) ==
    IF rels = <<>> THEN 0
    ELSE (IF Head(rels) \in DOMAIN items THEN Len(items[Head(rels)]) ELSE 0)
             + countLinks(items, Tail(rels))

\* the links a caller hands to Add, the hrefs it hands to Link, Self and Next
LinkChoices ==
    {Link(<<"/", "orders">>),
     [Href |-> <<"/", "orders", "{?q,page}">>, Templated |-> TRUE]}
AddChoices ==
    {<<>>} \cup {<<a>> : a \in LinkChoices}
           \cup {<<a, b>> : a \in LinkChoices, b \in LinkChoices}
HrefChoices == {<<"/", "orders">>, <<"/", "orders", "{?q}">>}

\* the parameters a caller hands to HrefParams
QueryParamChoices ==
    {NoParams, [v \in {"c"} |-> "test"], [v \in {"q"} |-> "test"],
     [v \in {"q", "page"} |-> IF v = "q" THEN "test" ELSE "1"]}

\* the texts a caller hands to LinkSet.UnmarshalJSON
JsonInputs ==
    {MarshalJSON(l) : l \in AddChoices}
    \cup {JLiteral("number"), JString(<<"/", "orders">>), JBool(TRUE), JLiteral("null"), JLiteral("invalid"),
          JObject(<<Member("href", JLiteral("number"))>>),
          JObject(<<Member("title", JString(<<"t">>))>>),
          JArray(<<JObject(<<Member("href", JLiteral("number"))>>)>>),
          JArray(<<JLiteral("number")>>)}

\* the documents a caller hands to json.Unmarshal, beside those Marshal wrote
DocInputs ==
    {JObject(<<>>),
     JObject(<<Member("_links", JObject(<<>>))>>),
     JObject(<<Member("_links", JObject(<<Member("find", JArray(<<>>))>>))>>),
     JObject(<<Member("_links", JObject(<<Member("next", JLiteral("number"))>>))>>),
     JObject(<<Member("_links", JLiteral("number"))>>)}

\* the Links a caller holds, whether its Items map is nil, and what the last
\* call on it was given and returned; recv is the receiver of an Add after
\* the call
NoCall ==
    [links |-> NoLinks, nilItems |-> TRUE, call |-> "", json |-> JLiteral("null"),
     rel |-> "", params |-> NoParams, ret |-> Ok(<<>>), recv |-> NoLinks]

\* ------------------------------------------------------------- server
\* What the injected client answers to a request: an error, a body that
\* cannot be read, a body that is no JSON, or a HAL document with its
\* `_links` and `_embedded` members.
Doc(links, embedded) == [kind |-> "doc", links |-> links, embedded |-> embedded]
NoEmbedded == [r \in {} |-> NoLinks]

DocRoot ==
    Doc([r \in Rels |-> IF r = "a" THEN <<Link(<<"/", "2nd">>)>>
                        ELSE <<Link(<<"http://g", "/", "a", "/", "{id}">>),
                               Link(<<"/", "other">>)>>],
        [r \in {"a"} |-> [s \in {"self"} |-> <<Link(<<"/", "2nd">>)>>]])
DocLeaf == Doc(NoLinks, NoEmbedded)
DocOdd ==
    Doc([r \in Rels |-> IF r = "a" THEN <<Link(<<"{id}">>)>>
                        ELSE <<Link(<<BadEscape>>)>>],
        [r \in Rels |-> IF r = "a"
                        THEN [s \in {"self"} |-> <<Link(<<"http:", "/", "2nd">>)>>]
                        ELSE NoLinks])
DocBroken ==
    Doc([r \in Rels |-> IF r = "a" THEN <<Link(<<"/", BadTemplate>>)>> ELSE <<>>],
        NoEmbedded)
Failure(kind) == [kind |-> kind, links |-> NoLinks, embedded |-> NoEmbedded]

Docs == {DocRoot, DocLeaf, DocOdd, DocBroken}
Responses == Docs \cup {Failure("transportErr"), Failure("readErr"), Failure("badJson")}
\* the answers to a terminal request, whose links no one follows
TerminalResponses == Responses \ {DocRoot, DocOdd, DocBroken}

\* ------------------------------------------------------------- state
VARIABLES
    navs,     \* the navigator values built so far
    ops,      \* heap of follow/extract structs: kind, rel, params, header
    sess,     \* heap of session header maps
    parent,   \* parent[i]: the navigator that navigator i was derived from
    hist,     \* per operation: through which navigator each value of its
              \* header was set (by)
    frame,    \* per caller: the call it is in.  Of a terminal call: the
              \* receiver n, the loop variables k and url of navigator.url,
              \* the requests given to the client and the state of the
              \* body of each response (log), the URL each hop
              \* produced (urls), the hop that failed (failed), the session
              \* headers at the call (sess0) and what the call returns
    hits,     \* the number of requests the HTTP client was given
    ncalls,   \* the number of terminal calls started
    crashed,  \* the runtime stopped the program (concurrent map access)
    lk,       \* a Links collection under construction, the JSON value its
              \* decoders were last given and what they returned
    pkg       \* package navigator: its Navigator values (navs), the links
              \* each was asked to navigate (given), and the call of Get
              \* under way (call)

vars == <<navs, ops, sess, parent, hist, frame, hits, ncalls, crashed, lk, pkg>>

Methods == {"Get", "Options", "PostForm", "Patch", "Put", "Post", "Delete", "Unmarshal"}
BodyMethods == {"PostForm", "Patch", "Put", "Post"}
BodyType == "application/json"
FormType == "application/x-www-form-urlencoded"

\* the variadic headers of a terminal call
CallHeaderChoices ==
    {<<>>, <<HeaderSet(HeaderSet(EmptyHeader, "X", "3"), "Accept", "text/plain")>>}

NoResponse == Failure("none")

\* Nav.httpheaders: a map[string]string, nil or empty
NoHttpHeaders == [k \in {} |-> ""]

Idle ==
    [pc |-> "idle", ix |-> 0,
     n |-> [rootUri |-> EmptyString, path |-> <<>>, sessionHeader |-> 0,
            HttpClient |-> "DefaultClient", httpheaders |-> NoHttpHeaders],
     method |-> "", headers |-> <<>>, k |-> 0, url |-> EmptyString,
     log |-> <<>>, urls |-> <<>>, err |-> NoErr, resp |-> NoResponse,
     op |-> 0, failed |-> 0, sess0 |-> EmptyHeader]

\* package navigator: New(uri)
New(uri) ==
    [rootUri |-> uri, linksToNavigate |-> <<>>, HttpClient |-> "DefaultClient"]

\* Navigator(uri)
NewNavigator(uri, sessionHeader) ==
    [rootUri |-> uri, path |-> <<>>, sessionHeader |-> sessionHeader,
     HttpClient |-> "DefaultClient", httpheaders |-> NoHttpHeaders]

NoHist == [by |-> [k \in ReqHNames |-> <<>>]]

Init ==
    /\ navs = <<NewNavigator(RootUri, 1)>>
    /\ ops = <<>>
    /\ sess = <<EmptyHeader>>
    /\ parent = <<0>>
    /\ hist = <<>>
    /\ frame = [c \in Callers |-> Idle]
    /\ hits = 0
    /\ ncalls = 0
    /\ crashed = FALSE
    /\ lk = NoCall
    /\ pkg = [navs |-> <<New(RootUri)>>, given |-> << <<>> >>,
              call |-> [pc |-> "idle", ix |-> 0, k |-> 0, url |-> EmptyString,
                        reqs |-> <<>>, err |-> NoErr]]

\* ------------------------------------------------------------- chaining
\* cloneHeader without the copy: the receiver's own map
cloneHeaderShared(n) == [heap |-> sess, id |-> n.sessionHeader]

\* cloneHeader: a new map holding a copy of the session headers.  The result
\* is the heap with the new map, and its index.
cloneHeader(n) ==
    [heap |-> Append(sess, sess[n.sessionHeader]), id |-> Len(sess) + 1]

\* the follow struct Followf allocates, the extract struct Extract allocates
NewFollow(rel, params) ==
    [kind |-> "follow", rel |-> rel, params |-> params, header |-> EmptyHeader]
NewExtract(rel) ==
    [kind |-> "extract", rel |-> rel, params |-> NoParams, header |-> EmptyHeader]

\* Followf and Extract returning a navigator with a path of the new
\* operation alone
ExtendedFromScratch(n, h) ==
    [HttpClient |-> n.HttpClient, sessionHeader |-> h.id,
     path |-> <<Len(ops) + 1>>, rootUri |-> n.rootUri,
     httpheaders |-> NoHttpHeaders]

\* the navigator Followf and Extract return: the path is a new slice holding
\* the receiver's pointers and the new one; the literal names no httpheaders
Extended(n, h) ==
    [HttpClient |-> n.HttpClient, sessionHeader |-> h.id,
     path |-> Append(n.path, Len(ops) + 1), rootUri |-> n.rootUri,
     httpheaders |-> NoHttpHeaders]

\* the navigator SetSessionHeader and AddSessionHeader return
WithSession(n, h) ==
    [HttpClient |-> n.HttpClient, sessionHeader |-> h.id,
     path |-> n.path, rootUri |-> n.rootUri, httpheaders |-> NoHttpHeaders]

Navigator(uri) ==
    /\ ~crashed
    /\ Len(navs) < MaxNavs
    /\ navs' = Append(navs, NewNavigator(uri, Len(sess) + 1))
    /\ sess' = Append(sess, EmptyHeader)
    /\ parent' = Append(parent, 0)
    /\ UNCHANGED <<pkg, lk, ops, hist, frame, hits, ncalls, crashed>>

\* Followf fetching the relation at once instead of recording it
FollowfEager(i, rel, params) ==
    LET n == navs[i]
        h == cloneHeader(n)
    IN  /\ ~crashed
        /\ Len(navs) < MaxNavs
        /\ Len(n.path) < MaxPath
        /\ ops' = Append(ops, NewFollow(rel, params))
        /\ sess' = h.heap
        /\ navs' = Append(navs, Extended(n, h))
        /\ parent' = Append(parent, i)
        /\ hist' = Append(hist, NoHist)
        /\ hits' = hits + 1
        /\ UNCHANGED <<pkg, lk, frame, ncalls, crashed>>

Followf(i, rel, params) ==
    LET n == navs[i]
        h == cloneHeader(n)
    IN  /\ ~crashed
        /\ Len(navs) < MaxNavs
        /\ Len(n.path) < MaxPath
        /\ ops' = Append(ops, NewFollow(rel, params))
        /\ sess' = h.heap
        /\ navs' = Append(navs, Extended(n, h))
        /\ parent' = Append(parent, i)
        /\ hist' = Append(hist, NoHist)
        /\ UNCHANGED <<pkg, lk, frame, hits, ncalls, crashed>>

Follow(i, rel) == Followf(i, rel, NoParams)

Extract(i, rel) ==
    LET n == navs[i]
        h == cloneHeader(n)
    IN  /\ ~crashed
        /\ Len(navs) < MaxNavs
        /\ Len(n.path) < MaxPath
        /\ ops' = Append(ops, NewExtract(rel))
        /\ sess' = h.heap
        /\ navs' = Append(navs, Extended(n, h))
        /\ parent' = Append(parent, i)
        /\ hist' = Append(hist, NoHist)
        /\ UNCHANGED <<pkg, lk, frame, hits, ncalls, crashed>>

\* Nav.AddHeaders(h): the receiver's copy with httpheaders set; it shares the
\* session map and the operations of the receiver
AddHeaders(i, h) ==
    /\ ~crashed
    /\ Len(navs) < MaxNavs
    /\ navs' = Append(navs, [navs[i] EXCEPT !.httpheaders = h])
    /\ parent' = Append(parent, i)
    /\ UNCHANGED <<pkg, lk, ops, sess, hist, frame, hits, ncalls, crashed>>

SetSessionHeader(i, header, value) ==
    LET n == navs[i]
        h == cloneHeader(n)
    IN  /\ ~crashed
        /\ Len(navs) < MaxNavs
        /\ sess' = [h.heap EXCEPT ![h.id] = HeaderSet(@, header, value)]
        /\ navs' = Append(navs, WithSession(n, h))
        /\ parent' = Append(parent, i)
        /\ UNCHANGED <<pkg, lk, ops, hist, frame, hits, ncalls, crashed>>

AddSessionHeader(i, header, value) ==
    LET n == navs[i]
        h == cloneHeader(n)
    IN  /\ ~crashed
        /\ Len(navs) < MaxNavs
        /\ Len(sess[n.sessionHeader][header]) < MaxVals
        /\ sess' = [h.heap EXCEPT ![h.id] = HeaderAdd(@, header, value)]
        /\ navs' = Append(navs, WithSession(n, h))
        /\ parent' = Append(parent, i)
        /\ UNCHANGED <<pkg, lk, ops, hist, frame, hits, ncalls, crashed>>

\* n.path[len(n.path)-1]
LastOp(n) == n.path[Len(n.path)]

\* follow.SetHeader and extract.SetHeader; follow.AddHeader and
\* extract.AddHeader
OpSetHeader(link, header, value) ==
    [link EXCEPT !.header = HeaderSet(@, header, value)]
OpAddHeader(link, header, value) ==
    [link EXCEPT !.header = HeaderAdd(@, header, value)]

\* the elements of a sequence
Range(q) == {q[x] : x \in 1..Len(q)}

\* another caller is inside a write of the header map of operation o
WrittenByOther(c, o) ==
    \E d \in Callers \ {c} : frame[d].pc = "write" /\ frame[d].op = o

\* SetRequestHeader falling back on the session headers of a navigator
\* without path
SetRequestHeaderOnSession(c, i, header, value) ==
    LET n == navs[i]
        o == LastOp(n)
    IN  /\ ~crashed
        /\ frame[c].pc = "idle"
        /\ IF Len(n.path) = 0
           THEN /\ sess' = [sess EXCEPT ![n.sessionHeader] = HeaderSet(@, header, value)]
                /\ UNCHANGED <<ops, hist, frame>>
           ELSE /\ ops' = [ops EXCEPT ![o] = OpSetHeader(@, header, value)]
                /\ hist' = [hist EXCEPT ![o].by[header] = <<i>>]
                /\ frame' = [frame EXCEPT ![c] = [Idle EXCEPT !.pc = "write", !.op = o]]
                /\ UNCHANGED sess
        /\ UNCHANGED <<pkg, lk, navs, parent, hits, ncalls, crashed>>

\* SetRequestHeader and AddRequestHeader return the receiver: no navigator
\* value is added.  With an empty path they do nothing.  Otherwise they
\* write the header map of the last operation of the path: the write takes
\* effect here and the caller is inside the map assignment until
\* HeaderWritten.
SetRequestHeader(c, i, header, value) ==
    LET n == navs[i]
        o == LastOp(n)
    IN  /\ ~crashed
        /\ frame[c].pc = "idle"
        /\ IF Len(n.path) = 0
           THEN UNCHANGED <<ops, hist, frame>>
           ELSE /\ ops' = [ops EXCEPT ![o] = OpSetHeader(@, header, value)]
                /\ hist' = [hist EXCEPT ![o].by[header] = <<i>>]
                /\ frame' = [frame EXCEPT ![c] = [Idle EXCEPT !.pc = "write", !.op = o]]
        /\ UNCHANGED <<pkg, lk, navs, sess, parent, hits, ncalls, crashed>>

AddRequestHeader(c, i, header, value) ==
    LET n == navs[i]
        o == LastOp(n)
    IN  /\ ~crashed
        /\ frame[c].pc = "idle"
        /\ IF Len(n.path) = 0
           THEN UNCHANGED <<ops, hist, frame>>
           ELSE /\ Len(ops[o].header[header]) < MaxVals
                /\ ops' = [ops EXCEPT ![o] = OpAddHeader(@, header, value)]
                /\ hist' = [hist EXCEPT ![o].by[header] = Append(@, i)]
                /\ frame' = [frame EXCEPT ![c] = [Idle EXCEPT !.pc = "write", !.op = o]]
        /\ UNCHANGED <<pkg, lk, navs, sess, parent, hits, ncalls, crashed>>

\* the map assignment of SetHeader/AddHeader is over
HeaderWritten(c) ==
    /\ ~crashed
    /\ frame[c].pc = "write"
    /\ frame' = [frame EXCEPT ![c] = Idle]
    /\ UNCHANGED <<pkg, lk, navs, ops, sess, parent, hist, hits, ncalls, crashed>>

\* Two goroutines in the same map, one of them writing: the runtime may
\* stop the program ("concurrent map writes").
ConcurrentMapAccess(c) ==
    /\ ~crashed
    /\ frame[c].pc = "write"
    /\ WrittenByOther(c, frame[c].op)
    /\ crashed' = TRUE
    /\ UNCHANGED <<pkg, lk, navs, ops, sess, parent, hist, frame, hits, ncalls>>

\* ------------------------------------------------------------- Location
\* the header of the response Location is handed: without a Location, or
\* with one
NoLocation == [k \in {} |-> <<>>]
WithLocation(loc) == [k \in {"Location"} |-> <<loc>>]
LocationHeaders ==
    {NoLocation, WithLocation(<<"/", "2nd">>), WithLocation(<<"http://g">>),
     WithLocation(<<BadEscape>>)}

\* Location with the session header map of the receiver, not a copy
LocationSharedResult(n, header) ==
    LET lurl == makeAbsoluteIfNecessary(header["Location"][1], n.rootUri)
    IN  IF "Location" \notin DOMAIN header
        THEN [nav |-> n, new |-> FALSE, heap |-> sess,
              err |-> [type |-> "errorString",
                       arg |-> <<"Response didn't contain a Location header">>]]
        ELSE IF IsErr(lurl.err)
        THEN [nav |-> n, new |-> FALSE, heap |-> sess, err |-> lurl.err]
        ELSE [nav |-> [HttpClient |-> n.HttpClient,
                       sessionHeader |-> n.sessionHeader,
                       path |-> <<>>, rootUri |-> lurl.val,
                       httpheaders |-> NoHttpHeaders],
              new |-> TRUE, heap |-> sess, err |-> NoErr]

\* navigator.Location: the navigator and the error it returns, whether the
\* navigator is a new value, and the heap of session maps after it
LocationResult(n, header) ==
    LET lurl == makeAbsoluteIfNecessary(header["Location"][1], n.rootUri)
        h == cloneHeader(n)
    IN  IF "Location" \notin DOMAIN header
        THEN [nav |-> n, new |-> FALSE, heap |-> sess,
              err |-> [type |-> "errorString",
                       arg |-> <<"Response didn't contain a Location header">>]]
        ELSE IF IsErr(lurl.err)
        THEN [nav |-> n, new |-> FALSE, heap |-> sess, err |-> lurl.err]
        ELSE [nav |-> [HttpClient |-> n.HttpClient, sessionHeader |-> h.id,
                       path |-> <<>>, rootUri |-> lurl.val,
                       httpheaders |-> NoHttpHeaders],
              new |-> TRUE, heap |-> h.heap, err |-> NoErr]

\* caller c calls Location on navigator i with a response of this header
Location(c, i, header) ==
    LET r == LocationResult(navs[i], header)
    IN  /\ ~crashed
        /\ frame[c].pc = "idle"
        /\ r.new => Len(navs) < MaxNavs
        /\ navs' = IF r.new THEN Append(navs, r.nav) ELSE navs
        /\ parent' = IF r.new THEN Append(parent, i) ELSE parent
        /\ sess' = r.heap
        /\ frame' = [frame EXCEPT ![c] =
               [Idle EXCEPT !.pc = "located", !.ix = i, !.n = r.nav, !.err = r.err]]
        /\ UNCHANGED <<pkg, lk, ops, hist, hits, ncalls, crashed>>

\* ------------------------------------------------------------- hops
\* the hop request without the session headers
HopRequestNoSession(n, uri, requestHeader) ==
    [method |-> "GET", url |-> uri, body |-> FALSE,
     header |-> mergeHeaders(newHalRequestHeader, <<requestHeader>>)]

\* the request getLinks and getEmbedded build: newHalRequest, then the
\* session headers and the headers of the step merged into it
HopRequest(n, uri, requestHeader) ==
    [method |-> "GET", url |-> uri, body |-> FALSE,
     header |-> mergeHeaders(newHalRequestHeader,
                             <<sess[n.sessionHeader], requestHeader>>)]

\* the header follow.Fetch hands to getLinks
FollowRequestHeader(link) == link.header

\* the header extract.Fetch hands to getEmbedded
ExtractRequestHeader(link) == link.header

\* getLinks, from the client's answer on: (Links, error)
getLinks(res) ==
    IF res.kind = "transportErr" THEN [err |-> TransportError, links |-> NoLinks]
    ELSE IF res.kind = "readErr" THEN [err |-> ReadError, links |-> NoLinks]
    ELSE IF res.kind = "badJson"
    THEN [err |-> Errorf("Unable to unmarshal: ", JsonError), links |-> NoLinks]
    ELSE [err |-> NoErr, links |-> res.links]

\* follow.Fetch without the check that the relation is there
FollowFetchUnchecked(link, res) ==
    LET got == getLinks(res)
        href == HrefParams(got.links, link.rel, link.params)
    IN  IF IsErr(got.err) THEN Fail(Errorf("Error getting links: ", got.err))
        ELSE IF href.err = Panic THEN Fail(Panic)
        ELSE IF IsErr(href.err) THEN Fail(Errorf("Error getting url: ", href.err))
        ELSE IF href.val = EmptyString THEN Fail(InvalidUrlError(href.val))
        ELSE Ok(href.val)

\* follow.Fetch without the check for an empty URL
FollowFetchEmptyUrl(link, res) ==
    LET got == getLinks(res)
        href == HrefParams(got.links, link.rel, link.params)
    IN  IF IsErr(got.err) THEN Fail(Errorf("Error getting links: ", got.err))
        ELSE IF link.rel \notin DOMAIN got.links THEN Fail(LinkNotFoundError(link.rel))
        ELSE IF href.err = Panic THEN Fail(Panic)
        ELSE IF IsErr(href.err) THEN Fail(Errorf("Error getting url: ", href.err))
        ELSE Ok(href.val)

\* follow.Fetch, from the client's answer on
FollowFetch(link, res) ==
    LET got == getLinks(res)
        href == HrefParams(got.links, link.rel, link.params)
    IN  IF IsErr(got.err) THEN Fail(Errorf("Error getting links: ", got.err))
        ELSE IF link.rel \notin DOMAIN got.links THEN Fail(LinkNotFoundError(link.rel))
        ELSE IF href.err = Panic THEN Fail(Panic)
        ELSE IF IsErr(href.err) THEN Fail(Errorf("Error getting url: ", href.err))
        ELSE IF href.val = EmptyString THEN Fail(InvalidUrlError(href.val))
        ELSE Ok(href.val)

\* getEmbedded taking the self link of the document instead of the one of
\* the embedded resource
getEmbeddedOwnSelf(rel, res) ==
    IF res.kind = "transportErr"
    THEN Fail(Errorf("Error requesting embedded resources: ", TransportError))
    ELSE IF res.kind = "readErr"
    THEN Fail(Errorf("Error reading request body: ", ReadError))
    ELSE IF res.kind = "badJson" THEN Fail(Errorf("Unable to unmarshal: ", JsonError))
    ELSE IF rel \notin DOMAIN res.embedded
    THEN Fail([type |-> "errorString",
               arg |-> <<"Request body doesn't contain embedded resource ", rel>>])
    ELSE LET self == Href(res.links, "self")
         IN  IF self.err = Panic THEN Fail(Panic)
             ELSE IF IsErr(self.err)
             THEN Fail(Errorf("Error extracting self href: ", self.err))
             ELSE Ok(self.val)

\* getEmbedded, from the client's answer on
getEmbedded(rel, res) ==
    IF res.kind = "transportErr"
    THEN Fail(Errorf("Error requesting embedded resources: ", TransportError))
    ELSE IF res.kind = "readErr"
    THEN Fail(Errorf("Error reading request body: ", ReadError))
    ELSE IF res.kind = "badJson" THEN Fail(Errorf("Unable to unmarshal: ", JsonError))
    ELSE IF rel \notin DOMAIN res.embedded
    THEN Fail([type |-> "errorString",
               arg |-> <<"Request body doesn't contain embedded resource ", rel>>])
    ELSE LET self == Href(res.embedded[rel], "self")
         IN  IF self.err = Panic THEN Fail(Panic)
             ELSE IF IsErr(self.err)
             THEN Fail(Errorf("Error extracting self href: ", self.err))
             ELSE Ok(self.val)

\* extract.Fetch, from the client's answer on
ExtractFetch(link, res) == getEmbedded(link.rel, res)

\* Operation.Fetch
Fetch(link, res) ==
    IF link.kind = "follow" THEN FollowFetch(link, res) ELSE ExtractFetch(link, res)

\* a Fetch that hands no header of the step to the request
RequestHeaderDropped(link) == EmptyHeader

\* the header an operation's Fetch hands to the request of its hop
RequestHeaderOf(link) ==
    IF link.kind = "follow" THEN FollowRequestHeader(link) ELSE ExtractRequestHeader(link)

\* ------------------------------------------------------------- calls
\* Put left with the method string of the method it was copied from
HttpMethodCopied(method) ==
    CASE method \in {"Get", "Unmarshal"} -> "GET"
      [] method = "Options" -> "OPTIONS"
      [] method \in {"PostForm", "Patch", "Put"} -> "PATCH"
      [] method = "Post" -> "POST"
      [] method = "Delete" -> "DELETE"

\* http.NewRequest's method of each terminal method
HttpMethod(method) ==
    CASE method \in {"Get", "Unmarshal"} -> "GET"
      [] method = "Options" -> "OPTIONS"
      [] method = "PostForm" -> "PATCH"
      [] method = "Patch" -> "PATCH"
      [] method = "Put" -> "PUT"
      [] method = "Post" -> "POST"
      [] method = "Delete" -> "DELETE"

\* the Content-Type a terminal method adds to its request
ContentType(method) ==
    IF method = "PostForm" THEN <<FormType>>
    ELSE IF method \in BodyMethods THEN <<BodyType>> ELSE <<>>

\* Get (and Unmarshal, which calls it) adds the navigator's httpheaders to
\* the request; no other terminal method reads them
WithHttpHeaders(method, httpheaders, header) ==
    IF method \in {"Get", "Unmarshal"}
    THEN [k \in DOMAIN header |->
             IF k \in DOMAIN httpheaders
             THEN Append(header[k], httpheaders[k]) ELSE header[k]]
    ELSE header

\* the request a terminal method builds once url() returned: newHalRequest,
\* the Content-Type, the httpheaders, then the session headers and the
\* headers of the call
TerminalRequest(f) ==
    [method |-> HttpMethod(f.method), url |-> f.url,
     body |-> f.method \in BodyMethods,
     header |-> mergeHeaders(
         WithHttpHeaders(f.method, f.n.httpheaders,
             [newHalRequestHeader EXCEPT !["Content-Type"] = ContentType(f.method)]),
         <<sess[f.n.sessionHeader]>> \o f.headers)]

\* a terminal method that uses up the session headers of its navigator
CallConsuming(c, i) ==
    /\ ~crashed
    /\ frame[c].pc = "idle"
    /\ ncalls < MaxCalls
    /\ ncalls' = ncalls + 1
    /\ frame' = [frame EXCEPT ![c] =
           [Idle EXCEPT !.pc = "resolve", !.ix = i,
                        !.n = navs[i], !.url = navs[i].rootUri,
                        !.sess0 = sess[navs[i].sessionHeader]]]
    /\ sess' = [sess EXCEPT ![navs[i].sessionHeader] = EmptyHeader]
    /\ UNCHANGED <<pkg, lk, navs, ops, parent, hist, hits, crashed>>

\* A terminal method is called on navigator i.  Each of them starts with
\* n.url(), which starts at rootUri; the method and its arguments come into
\* play once url() returned.
Call(c, i) ==
    /\ ~crashed
    /\ frame[c].pc = "idle"
    /\ ncalls < MaxCalls
    /\ ncalls' = ncalls + 1
    /\ frame' = [frame EXCEPT ![c] =
           [Idle EXCEPT !.pc = "resolve", !.ix = i,
                        !.n = navs[i], !.url = navs[i].rootUri,
                        !.sess0 = sess[navs[i].sessionHeader]]]
    /\ UNCHANGED <<pkg, lk, navs, ops, sess, parent, hist, hits, crashed>>

\* The caller whose call on navigator i has returned a response, and who
\* still holds it, calls the terminal method on navigator i once more; the
\* second call is kept under c.
CallAgain(c, i) ==
    /\ ~crashed
    /\ frame[c].pc = "idle"
    /\ \E d \in Callers \ {c} : frame[d].pc = "done" /\ frame[d].ix = i
    /\ ncalls = MaxCalls
    /\ ncalls' = ncalls + 1
    /\ frame' = [frame EXCEPT ![c] =
           [Idle EXCEPT !.pc = "resolve", !.ix = i,
                        !.n = navs[i], !.url = navs[i].rootUri,
                        !.sess0 = sess[navs[i].sessionHeader]]]
    /\ UNCHANGED <<pkg, lk, navs, ops, sess, parent, hist, hits, crashed>>

\* every hop fetched at the root
FetchUrlRoot(f) == f.n.rootUri

\* the operation the loop of url() is at, and the URL it is fetched at
CurrentOp(f) == f.n.path[f.k + 1]
FetchUrl(f) == f.url

\* the frame of a call that returns (nil, err)
Returned(f, err) == [f EXCEPT !.pc = "done", !.err = err, !.resp = NoResponse]

\* the loop of url() going on to the next operation after an error
AfterFetchContinue(f, r) ==
    LET abs == makeAbsoluteIfNecessary(r.val, f.n.rootUri)
    IN  IF r.err = Panic THEN [f EXCEPT !.pc = "panic"]
        ELSE IF IsErr(r.err) \/ IsErr(abs.err)
        THEN [f EXCEPT !.k = @ + 1, !.pc = "resolve"]
        ELSE [f EXCEPT !.k = @ + 1, !.url = abs.val, !.pc = "resolve",
                       !.urls = Append(@, abs.val)]

\* the loop body of url() once Fetch returned r: an error ends the walk,
\* otherwise the URL is made absolute against rootUri
AfterFetch(f, r) ==
    LET abs == makeAbsoluteIfNecessary(r.val, f.n.rootUri)
    IN  IF r.err = Panic THEN [f EXCEPT !.pc = "panic"]
        ELSE IF IsErr(r.err) THEN Returned(f, r.err)
        ELSE IF IsErr(abs.err)
        THEN Returned(f, Errorf("Error making url absolute: ", abs.err))
        ELSE [f EXCEPT !.k = @ + 1, !.url = abs.val, !.pc = "resolve",
                       !.urls = Append(@, abs.val)]

\* did hop k+1 fail on answer res
HopFails(f, res) ==
    LET r == Fetch(ops[CurrentOp(f)], res)
    IN  \/ IsErr(r.err) /\ r.err # Panic
        \/ ~IsErr(r.err) /\ IsErr(makeAbsoluteIfNecessary(r.val, f.n.rootUri).err)

\* the body of the response to a hop fetch once getLinks or getEmbedded
\* returned: there is none after an error of the client, otherwise the
\* deferred res.Body.Close() ran
HopBody(res) == IF res.kind = "transportErr" THEN "none" ELSE "closed"

\* url(): the next operation of the path gives its request to the client
HopSend(c) ==
    LET f == frame[c]
        link == ops[CurrentOp(f)]
        req == HopRequest(f.n, FetchUrl(f), RequestHeaderOf(link))
    IN  /\ ~crashed
        /\ f.pc = "resolve"
        /\ f.k < Len(f.n.path)
        /\ \/ /\ UrlParse(FetchUrl(f)).ok
              /\ frame' = [frame EXCEPT ![c] =
                     [f EXCEPT !.pc = "hop",
                               !.log = Append(@, [hop |-> f.k + 1, req |-> req,
                                                  done |-> FALSE,
                                                  resBody |-> "none",
                                                  by |-> Range(hist[CurrentOp(f)].by["X"])])]]
              /\ hits' = hits + 1
              /\ UNCHANGED crashed
           \/ /\ ~UrlParse(FetchUrl(f)).ok
              /\ frame' = [frame EXCEPT ![c] =
                     [Returned(f, IF link.kind = "follow"
                                  THEN Errorf("Error getting links: ", UrlParseError)
                                  ELSE UrlParseError)
                        EXCEPT !.failed = f.k + 1]]
              /\ UNCHANGED <<hits, crashed>>
           \/ /\ WrittenByOther(c, CurrentOp(f))
              /\ crashed' = TRUE
              /\ UNCHANGED <<frame, hits>>
        /\ UNCHANGED <<pkg, lk, navs, ops, sess, parent, hist, ncalls>>

\* url(): the client answers, Fetch returns and the loop goes on or ends
HopRecv(c, res) ==
    LET f == frame[c]
        g == [f EXCEPT !.log[Len(f.log)].done = TRUE,
                       !.log[Len(f.log)].resBody = HopBody(res),
                       !.failed = IF HopFails(f, res) THEN f.k + 1 ELSE 0]
    IN  /\ ~crashed
        /\ f.pc = "hop"
        /\ frame' = [frame EXCEPT ![c] = AfterFetch(g, Fetch(ops[CurrentOp(f)], res))]
        /\ UNCHANGED <<pkg, lk, navs, ops, sess, parent, hist, hits, ncalls, crashed>>

\* url() returned a URL: the terminal method builds its request and gives
\* it to the client
TerminalSend(c, method, headers) ==
    LET f == [frame[c] EXCEPT !.method = method, !.headers = headers]
    IN  /\ ~crashed
        /\ f.pc = "resolve"
        /\ f.k = Len(f.n.path)
        /\ IF UrlParse(f.url).ok
           THEN /\ frame' = [frame EXCEPT ![c] =
                       [f EXCEPT !.pc = "terminal",
                                 !.log = Append(@, [hop |-> 0, req |-> TerminalRequest(f),
                                                    done |-> FALSE,
                                                    resBody |-> "none", by |-> {}])]]
                /\ hits' = hits + 1
           ELSE /\ frame' = [frame EXCEPT ![c] = Returned(f, UrlParseError)]
                /\ UNCHANGED hits
        /\ UNCHANGED <<pkg, lk, navs, ops, sess, parent, hist, ncalls, crashed>>

Get(c, headers) == TerminalSend(c, "Get", headers)
Options(c, headers) == TerminalSend(c, "Options", headers)
PostForm(c, headers) == TerminalSend(c, "PostForm", headers)
Patch(c, headers) == TerminalSend(c, "Patch", headers)
Put(c, headers) == TerminalSend(c, "Put", headers)
Post(c, headers) == TerminalSend(c, "Post", headers)
Delete(c, headers) == TerminalSend(c, "Delete", headers)
Unmarshal(c) == TerminalSend(c, "Unmarshal", <<>>)

\* Unmarshal, after Get: read the body and decode it
UnmarshalBody(res) ==
    IF res.kind = "readErr" THEN ReadError
    ELSE IF res.kind = "badJson" THEN JsonError ELSE NoErr

\* Unmarshal closing the body only after it decoded it
TerminalBodyLeaked(method, res) ==
    IF res.kind = "transportErr" THEN "none"
    ELSE IF method = "Unmarshal" /\ UnmarshalBody(res) = NoErr THEN "closed"
    ELSE "open"

\* the body of the response to the terminal request once the terminal
\* method returned: Unmarshal's deferred res.Body.Close() ran, the other
\* methods hand the response to the caller
TerminalBody(method, res) ==
    IF res.kind = "transportErr" THEN "none"
    ELSE IF method = "Unmarshal" THEN "closed" ELSE "open"

\* the client answers the terminal request and the call returns
TerminalRecv(c, res) ==
    LET f == frame[c]
        g == [f EXCEPT !.log[Len(f.log)].done = TRUE,
                       !.log[Len(f.log)].resBody = TerminalBody(f.method, res)]
    IN  /\ ~crashed
        /\ f.pc = "terminal"
        /\ frame' = [frame EXCEPT ![c] =
               IF res.kind = "transportErr" THEN Returned(g, TransportError)
               ELSE IF f.method = "Unmarshal"
               THEN [g EXCEPT !.pc = "done", !.err = UnmarshalBody(res)]
               ELSE [g EXCEPT !.pc = "done", !.resp = res]]
        /\ UNCHANGED <<pkg, lk, navs, ops, sess, parent, hist, hits, ncalls, crashed>>

\* the caller is done with what the call returned
Return(c) ==
    /\ ~crashed
    /\ frame[c].pc \in {"done", "located"}
    /\ frame' = [frame EXCEPT ![c] = Idle]
    /\ UNCHANGED <<pkg, lk, navs, ops, sess, parent, hist, hits, ncalls, crashed>>

Indices == 1..Len(navs)

\* the terminal method m, from the return of url() on
Terminal(c, m, h) ==
    CASE m = "Get" -> Get(c, h)
      [] m = "Options" -> Options(c, h)
      [] m = "PostForm" -> PostForm(c, h)
      [] m = "Patch" -> Patch(c, h)
      [] m = "Put" -> Put(c, h)
      [] m = "Post" -> Post(c, h)
      [] m = "Delete" -> Delete(c, h)
      [] m = "Unmarshal" -> h = <<>> /\ Unmarshal(c)

\* the steps of the program when the callers of C use the navigators, with
\* header values of V, the terminal methods of M and the response headers
\* of L
StepOf(C, V, M, L) ==
    \/ \E i \in Indices, rel \in Rels : Follow(i, rel)
    \/ \E i \in Indices : Followf(i, "b", IdParams)
    \/ \E i \in Indices, rel \in Rels : Extract(i, rel)
    \/ \E i \in Indices, k \in HNames, v \in V : SetSessionHeader(i, k, v)
    \/ \E i \in Indices, k \in HNames, v \in V : AddSessionHeader(i, k, v)
    \/ \E c \in C, i \in Indices, k \in HNames, v \in V :
           SetRequestHeader(c, i, k, v)
    \/ \E c \in C, i \in Indices, k \in HNames, v \in V :
           AddRequestHeader(c, i, k, v)
    \/ \E c \in C : HeaderWritten(c)
    \/ \E c \in C, i \in Indices, header \in L : Location(c, i, header)
    \/ \E c \in C, i \in Indices : Call(c, i)
    \/ \E c \in C : HopSend(c)
    \/ \E c \in C, res \in Responses : HopRecv(c, res)
    \/ \E c \in C, m \in M, h \in CallHeaderChoices : Terminal(c, m, h)
    \/ \E c \in C, res \in TerminalResponses : TerminalRecv(c, res)
    \/ \E c \in C : Return(c)

\* one goroutine builds the navigators and calls them
Next ==
    \/ \E uri \in Roots : Navigator(uri)
    \/ StepOf({1}, HVals, Methods, LocationHeaders)

Spec == Init /\ [][Next]_vars

\* one goroutine builds the navigators and calls Get, and calls it again on
\* the same navigator
NextTwice ==
    \/ StepOf({1}, {"1"}, {"Get"}, {NoLocation})
    \/ \E i \in Indices : CallAgain(2, i)
    \/ HopSend(2)
    \/ \E res \in Responses : HopRecv(2, res)
    \/ \E h \in CallHeaderChoices : Terminal(2, "Get", h)
    \/ \E res \in TerminalResponses : TerminalRecv(2, res)

SpecTwice == Init /\ [][NextTwice]_vars

\* the Nav revision: one goroutine builds the navigators, gives them
\* httpheaders and calls them
NextNav ==
    \/ \E i \in Indices : AddHeaders(i, [k \in {"X"} |-> "9"])
    \/ StepOf({1}, {"1"}, Methods, {NoLocation})

SpecNav == Init /\ [][NextNav]_vars

\* ------------------------------------------------- links: the steps
\* l = l.Add(rel, links...).  Add has a value receiver: a map made for nil
\* Items is the result's alone, any other map is the receiver's too
Add(rel, links) ==
    /\ countLinks(LinksAdd(lk.links, rel, links), SortedRels) <= MaxLinks
    /\ lk' = [NoCall EXCEPT !.links = LinksAdd(lk.links, rel, links),
                            !.nilItems = FALSE,
                            !.call = "Add", !.rel = rel,
                            !.recv = IF lk.nilItems THEN NoLinks
                                     ELSE LinksAdd(lk.links, rel, links)]
    /\ UNCHANGED <<pkg, navs, ops, sess, parent, hist, frame, hits, ncalls, crashed>>

\* l = l.Link(rel, href)
LinkHref(rel, href) == Add(rel, <<Link(href)>>)

\* l = l.Self(href)
SelfHref(href) == LinkHref("self", href)

\* l = l.Next(href)
NextHref(href) == LinkHref("next", href)

\* json.Marshal(l)
MarshalLinks ==
    /\ lk' = [NoCall EXCEPT !.links = lk.links, !.nilItems = lk.nilItems,
                            !.call = "Marshal",
                            !.json = LinksMarshal(lk.links)]
    /\ UNCHANGED <<pkg, navs, ops, sess, parent, hist, frame, hits, ncalls, crashed>>

\* var l Links; err = json.Unmarshal(d, &l)
UnmarshalLinks(d) ==
    /\ d \in DocInputs \/ (lk.call = "Marshal" /\ d = lk.json)
    /\ LET r == LinksUnmarshal(d, NoLinks)
       IN  lk' = [NoCall EXCEPT !.links = r.val, !.call = "Unmarshal",
                               !.nilItems = ~\E i \in 1..Len(d.members) :
                                                 /\ d.members[i].k = "_links"
                                                 /\ d.members[i].v.t = "object",
                               !.json = d, !.ret = [r EXCEPT !.val = <<>>]]
    /\ UNCHANGED <<pkg, navs, ops, sess, parent, hist, frame, hits, ncalls, crashed>>

\* var set LinkSet; err = set.UnmarshalJSON(d)
UnmarshalLinkSet(d) ==
    /\ lk' = [NoCall EXCEPT !.links = lk.links, !.nilItems = lk.nilItems,
                            !.call = "UnmarshalJSON",
                            !.json = d, !.ret = UnmarshalJSON(<<>>, d)]
    /\ UNCHANGED <<pkg, navs, ops, sess, parent, hist, frame, hits, ncalls, crashed>>

\* href, err = l.HrefParams(rel, params)
QueryHref(rel, params) ==
    /\ lk' = [NoCall EXCEPT !.links = lk.links, !.nilItems = lk.nilItems,
                            !.call = "HrefParams",
                            !.rel = rel, !.params = params,
                            !.ret = HrefParams(lk.links, rel, params)]
    /\ UNCHANGED <<pkg, navs, ops, sess, parent, hist, frame, hits, ncalls, crashed>>

\* one goroutine builds a Links, writes it, reads it and asks it for hrefs
NextLinks ==
    \/ \E rel \in LinkRels, links \in AddChoices : Add(rel, links)
    \/ \E rel \in LinkRels, href \in HrefChoices : LinkHref(rel, href)
    \/ \E href \in HrefChoices : SelfHref(href)
    \/ \E href \in HrefChoices : NextHref(href)
    \/ MarshalLinks
    \/ \E d \in DocInputs \cup {lk.json} : UnmarshalLinks(d)
    \/ \E d \in JsonInputs : UnmarshalLinkSet(d)
    \/ \E rel \in LinkRels, params \in QueryParamChoices : QueryHref(rel, params)

SpecLinks == Init /\ [][NextLinks]_vars

\* ------------------------------------------------- package navigator
\* n.LinkExpand(rel, params): links is made with length 0 and room for the
\* receiver's links and one more; copy(n.linksToNavigate, links) copies
\* min(len(dst), len(src)) elements of links into the receiver's slice;
\* link{rel: rel} is appended to links
LinkExpand(i, rel, params) ==
    LET n == pkg.navs[i]
        made == <<>>
        copy(dst, src) ==
            [j \in 1..Len(dst) |-> IF j <= Len(src) THEN src[j] ELSE dst[j]]
        links == Append(made, [rel |-> rel, params |-> NoParams])
    IN  /\ Len(pkg.navs) < MaxNavs
        /\ pkg.call.pc \in {"idle", "done"}
        /\ pkg' = [pkg EXCEPT
               !.navs = Append(
                   [@ EXCEPT ![i].linksToNavigate = copy(@, made)],
                   [HttpClient |-> n.HttpClient, linksToNavigate |-> links,
                    rootUri |-> n.rootUri]),
               !.given = Append(@, @[i] \o <<[rel |-> rel, params |-> params]>>)]
        /\ UNCHANGED <<navs, ops, sess, parent, hist, frame, hits, ncalls, crashed, lk>>

\* n.Link(rel)
LinkTo(i, rel) == LinkExpand(i, rel, NoParams)

\* n.Get(): url() starts at the root URI
UrlStart(i) ==
    /\ pkg.call.pc \in {"idle", "done"}
    /\ pkg' = [pkg EXCEPT !.call = [pc |-> "url", ix |-> i, k |-> 0,
                                    url |-> pkg.navs[i].rootUri,
                                    reqs |-> <<>>, err |-> NoErr]]
    /\ UNCHANGED <<navs, ops, sess, parent, hist, frame, hits, ncalls, crashed, lk>>

\* url(), one round of its loop: getLinks(url) asks the client for the
\* document and returns its errors as they are; the relation must be in its
\* links; the next URL is HrefParams of the link's relation and params
UrlHop(res) ==
    LET c == pkg.call
        link == pkg.navs[c.ix].linksToNavigate[c.k + 1]
        href == HrefParams(res.links, link.rel, link.params)
        err == IF res.kind = "transportErr" THEN TransportError
               ELSE IF res.kind = "readErr" THEN ReadError
               ELSE IF res.kind = "badJson" THEN JsonError
               ELSE IF link.rel \notin DOMAIN res.links
               THEN LinkNotFoundError(link.rel)
               ELSE href.err
    IN  /\ c.pc = "url"
        /\ c.k < Len(pkg.navs[c.ix].linksToNavigate)
        /\ pkg' = [pkg EXCEPT !.call =
               IF IsErr(err)
               THEN [c EXCEPT !.pc = "done", !.err = err,
                              !.reqs = Append(@, c.url), !.url = EmptyString]
               ELSE [c EXCEPT !.k = @ + 1, !.url = href.val,
                              !.reqs = Append(@, c.url)]]
        /\ UNCHANGED <<navs, ops, sess, parent, hist, frame, hits, ncalls, crashed, lk>>

\* Get, after url(): n.HttpClient.Get(url)
TerminalGet ==
    LET c == pkg.call
    IN  /\ c.pc = "url"
        /\ c.k = Len(pkg.navs[c.ix].linksToNavigate)
        /\ pkg' = [pkg EXCEPT !.call = [c EXCEPT !.pc = "done",
                                                 !.reqs = Append(@, c.url)]]
        /\ UNCHANGED <<navs, ops, sess, parent, hist, frame, hits, ncalls, crashed, lk>>

\* one goroutine builds Navigators of package navigator and calls Get
NextPkg ==
    \/ \E i \in 1..Len(pkg.navs), rel \in Rels : LinkExpand(i, rel, IdParams)
    \/ \E i \in 1..Len(pkg.navs), rel \in Rels : LinkTo(i, rel)
    \/ \E i \in 1..Len(pkg.navs) : UrlStart(i)
    \/ \E res \in Responses : UrlHop(res)
    \/ TerminalGet

SpecPkg == Init /\ [][NextPkg]_vars

\* several goroutines use the navigators
NextConcurrent ==
    \/ StepOf(Callers, {"1"}, {"Get"}, {NoLocation})
    \/ \E c \in Callers : ConcurrentMapAccess(c)

SpecConcurrent == Init /\ [][NextConcurrent]_vars

\* ------------------------------------------------------------- properties
\* the URL hop j of the call of frame f has to be fetched at
HopUrl(f, j) == IF j = 1 THEN f.n.rootUri ELSE f.urls[j - 1]

\* the call of frame f resolved its whole path and sent its terminal request
Resolved(f) == f.pc \in {"terminal", "done"} /\ f.failed = 0

\* C1: a call on a path of n operations whose hops all succeed gives the
\* client exactly n hop fetches and then one terminal request: hop 1 at
\* rootUri, hop j+1 at the absolute URL hop j produced, the terminal request
\* at the URL of hop n (rootUri when n = 0); and no request is given to the
\* client before the answer to the previous one.
ResolutionInOrder ==
    \A c \in Callers :
        LET f == frame[c]
            n == Len(f.n.path)
        IN  /\ \A j \in 1..(Len(f.log) - 1) : f.log[j].done
            /\ Resolved(f) =>
                 /\ Len(f.log) = n + 1
                 /\ Len(f.urls) = n
                 /\ \A j \in 1..n :
                        /\ f.log[j].hop = j
                        /\ f.log[j].req.method = "GET"
                        /\ f.log[j].req.url = HopUrl(f, j)
                        /\ IsAbs(UrlParse(f.urls[j]))
                 /\ f.log[n + 1].hop = 0
                 /\ f.log[n + 1].req.url = HopUrl(f, n + 1)

\* a call on a two-hop path returned a response after fetching the root and
\* then the URL the first hop produced
TwoHopsResolved ==
    \E c \in Callers :
        /\ frame[c].pc = "done"
        /\ ~IsErr(frame[c].err)
        /\ frame[c].resp # NoResponse
        /\ Len(frame[c].n.path) = 2
        /\ frame[c].urls = <<<<"http://h", "/", "2nd">>,
                             <<"http://g", "/", "a", "/", "1">>>>

\* C2: when hop k fails the call returns an error and no response, no later
\* hop is fetched, no terminal request is sent and no request is repeated.
StopsAtFirstFailure ==
    \A c \in Callers :
        LET f == frame[c]
        IN  f.failed > 0 =>
              /\ f.pc = "done"
              /\ IsErr(f.err)
              /\ f.resp = NoResponse
              /\ Len(f.log) \in {f.failed - 1, f.failed}
              /\ \A j \in 1..Len(f.log) : f.log[j].hop = j

\* the first hop of a two-hop path failed and the call returned
FirstHopFailed ==
    \E c \in Callers :
        /\ frame[c].pc = "done"
        /\ frame[c].failed = 1
        /\ Len(frame[c].n.path) = 2
        /\ Len(frame[c].log) = 1

\* what navigator i is to its holder: its root, its path, the headers of
\* each operation of the path and its session headers
NavView(i) ==
    [rootUri |-> navs[i].rootUri,
     path |-> navs[i].path,
     stepHeaders |-> [j \in 1..Len(navs[i].path) |-> ops[navs[i].path[j]].header],
     session |-> sess[navs[i].sessionHeader]]

\* C3: every chaining method returns a new navigator and leaves the
\* receiver as it was: no call changes the root, the path, the session
\* headers or the per-step headers of a navigator that exists.
ReceiverUnchanged ==
    [][\A i \in 1..Len(navs) : NavView(i)' = NavView(i)]_vars

\* navigator i and the navigators it was derived from
RECURSIVE Lineage(_)
Lineage(i) == IF i = 0 THEN {} ELSE {i} \cup Lineage(parent[i])

\* C4: no operation is shared between navigators: a request of a call on a
\* navigator carries request headers set through that navigator or the ones
\* it was derived from, never one set through another navigator.
NoForeignRequestHeader ==
    \A c \in Callers :
        \A j \in 1..Len(frame[c].log) :
            frame[c].log[j].by \subseteq Lineage(frame[c].ix)

\* C5: callers extending chains from the same base never write the header
\* map of the same operation at the same time.
NoConcurrentHeaderWrite ==
    \A c \in Callers, d \in Callers :
        (c # d /\ frame[c].pc = "write" /\ frame[d].pc = "write")
            => frame[c].op # frame[d].op

\* C6: SetSessionHeader and AddSessionHeader, and every call after them,
\* leave the session headers of every navigator that exists as they were.
SessionHeadersKept ==
    [][\A i \in 1..Len(navs) :
           /\ navs'[i] = navs[i]
           /\ sess'[navs'[i].sessionHeader] = sess[navs[i].sessionHeader]]_vars

\* m was made from n by a session-header call and a further session-header
\* call was made on m: the three navigators hold three session headers
SessionHeadersDiverged ==
    \E n \in 1..Len(navs), m \in 1..Len(navs), l \in 1..Len(navs) :
        /\ parent[m] = n /\ parent[l] = m
        /\ navs[m].path = navs[n].path /\ navs[l].path = navs[m].path
        /\ sess[navs[n].sessionHeader]["X"] = <<>>
        /\ sess[navs[m].sessionHeader]["X"] = <<"1">>
        /\ sess[navs[l].sessionHeader]["X"] = <<"1", "2">>

\* s is the start of q
IsPrefix(s, q) == Len(s) <= Len(q) /\ SubSeq(q, 1, Len(s)) = s

\* C7: the session headers the navigator holds when the terminal method is
\* called are on every request of the call, hop fetches and terminal
\* request alike.
SessionHeaderOnEveryRequest ==
    \A c \in Callers :
        \A j \in 1..Len(frame[c].log), k \in HNames :
            IsPrefix(frame[c].sess0[k], frame[c].log[j].req.header[k])

\* a call on a navigator with a session header fetched a hop and sent its
\* terminal request
SessionHeaderSent ==
    \E c \in Callers :
        /\ frame[c].pc = "done"
        /\ frame[c].sess0["X"] # <<>>
        /\ Len(frame[c].n.path) = 1
        /\ Len(frame[c].log) = 2

\* the values of header k that request j of the call of frame f has to
\* carry after the session headers: those of the operation of its hop, and
\* for the terminal request those handed to the terminal method
ScopedValues(f, j, k) ==
    IF f.log[j].hop > 0 THEN ops[f.n.path[f.log[j].hop]].header[k]
    ELSE mergeHeaders(EmptyHeader, f.headers)[k]

\* C8: a request header set after the k-th operation of the path is on the
\* fetch of that operation and on no other request of the call: each hop
\* fetch carries the session headers and then the headers of its own
\* operation, the terminal request carries no header of an operation.
RequestHeaderOnItsHopOnly ==
    \A c \in Callers :
        \A j \in 1..Len(frame[c].log), k \in HNames :
            frame[c].log[j].req.header[k] =
                frame[c].sess0[k] \o ScopedValues(frame[c], j, k)

\* a call on a two-hop path with a request header on exactly one of the two
\* operations sent its three requests
RequestHeaderSent ==
    \E c \in Callers :
        LET f == frame[c]
        IN  /\ f.pc = "done"
            /\ Len(f.n.path) = 2
            /\ Len(f.log) = 3
            /\ ops[f.n.path[1]].header["X"] = <<>>
            /\ ops[f.n.path[2]].header["X"] # <<>>
            /\ f.log[2].req.header["X"] # f.log[1].req.header["X"]

\* C9: building a chain gives the client no request: a step that adds a
\* navigator or writes a header leaves the count of requests alone, and the
\* count only grows inside a terminal call, when url() or the terminal
\* method sends.
NoRequestWhileBuilding ==
    [][/\ (navs' # navs \/ ops' # ops \/ sess' # sess) => hits' = hits
       /\ hits' # hits =>
              \E c \in Callers : /\ frame[c].pc = "resolve"
                                 /\ frame'[c].pc \in {"hop", "terminal"}]_vars

\* navigators were built up to a two-step chain with a request header on
\* its first step, and no request was made
ChainBuiltWithoutRequest ==
    /\ hits = 0
    /\ ncalls = 0
    /\ Len(navs) = MaxNavs
    /\ \E i \in 1..Len(navs) :
           /\ Len(navs[i].path) = MaxPath
           /\ ops[navs[i].path[1]].header["X"] # <<>>
           /\ sess[navs[i].sessionHeader] = EmptyHeader

\* C10: a Follow step whose relation is not among the links of the document
\* fetched at the current URL ends the call with the LinkNotFoundError of
\* that relation, whose message is "Response didn't contain link with
\* relation: <rel>", and with no response.
AbsentRelationIsLinkNotFound ==
    [][\A c \in Callers, res \in Docs :
           LET link == ops[CurrentOp(frame[c])]
           IN  (/\ frame[c].pc = "hop"
                /\ link.kind = "follow"
                /\ link.rel \notin DOMAIN res.links
                /\ HopRecv(c, res))
               => /\ frame'[c].pc = "done"
                  /\ frame'[c].resp = NoResponse
                  /\ frame'[c].err.type = "LinkNotFoundError"
                  /\ frame'[c].err.arg = <<link.rel>>
                  /\ ErrorString(frame'[c].err) =
                         <<"Response didn't contain link with relation: ",
                           link.rel>>]_vars

\* the second hop of a call followed a relation the document did not have
\* and the call returned LinkNotFoundError
LinkNotFoundReturned ==
    \E c \in Callers :
        LET f == frame[c]
        IN  /\ f.pc = "done"
            /\ f.failed = 2
            /\ ops[f.n.path[2]].kind = "follow"
            /\ f.err.type = "LinkNotFoundError"
            /\ f.err.arg = <<ops[f.n.path[2]].rel>>

\* the first link of relation rel of document res expands to the empty
\* string with the parameters of the step
ExpandsToEmpty(res, link) ==
    /\ link.rel \in DOMAIN res.links
    /\ Len(res.links[link.rel]) > 0
    /\ TemplateParses(res.links[link.rel][1].Href)
    /\ Expand(res.links[link.rel][1].Href, link.params) = EmptyString

\* C11: a Follow step whose relation is there but whose href, expanded with
\* the parameters of the step, is the empty string ends the call with
\* InvalidUrlError; the walk does not go on with an empty URL.
EmptyHrefIsInvalidUrl ==
    [][\A c \in Callers, res \in Docs :
           LET link == ops[CurrentOp(frame[c])]
           IN  (/\ frame[c].pc = "hop"
                /\ link.kind = "follow"
                /\ ExpandsToEmpty(res, link)
                /\ HopRecv(c, res))
               => /\ frame'[c].pc = "done"
                  /\ frame'[c].resp = NoResponse
                  /\ frame'[c].err = InvalidUrlError(EmptyString)
                  /\ frame'[c].urls = frame[c].urls]_vars

\* a call returned InvalidUrlError from a Follow step
InvalidUrlReturned ==
    \E c \in Callers :
        LET f == frame[c]
        IN  /\ f.pc = "done"
            /\ f.failed > 0
            /\ ops[f.n.path[f.failed]].kind = "follow"
            /\ f.err.type = "InvalidUrlError"

\* the embedded resource rel of document res has a self link
HasSelf(res, rel) ==
    /\ rel \in DOMAIN res.embedded
    /\ "self" \in DOMAIN res.embedded[rel]
    /\ Len(res.embedded[rel]["self"]) > 0

\* C12: an Extract step fetches the resource at the current URL; when the
\* embedded resources of the body do not have its relation the call ends
\* with an error, and when they have it, with a self link, the next URL is
\* the href of that self link (made absolute).
ExtractYieldsSelf ==
    [][\A c \in Callers, res \in Docs :
           LET f == frame[c]
               link == ops[CurrentOp(f)]
           IN  (f.pc = "hop" /\ link.kind = "extract" /\ HopRecv(c, res))
               => /\ f.log[Len(f.log)].req.url = f.url
                  /\ f.log[Len(f.log)].req.method = "GET"
                  /\ link.rel \notin DOMAIN res.embedded
                       => /\ frame'[c].pc = "done"
                          /\ IsErr(frame'[c].err)
                          /\ frame'[c].resp = NoResponse
                  /\ HasSelf(res, link.rel)
                       => /\ frame'[c].pc = "resolve"
                          /\ frame'[c].k = f.k + 1
                          /\ frame'[c].url = makeAbsoluteIfNecessary(
                                 res.embedded[link.rel]["self"][1].Href,
                                 f.n.rootUri).val]_vars

\* an Extract step took the call to the self link of the embedded resource
ExtractResolved ==
    \E c \in Callers :
        LET f == frame[c]
        IN  /\ f.pc = "done"
            /\ ~IsErr(f.err)
            /\ Len(f.n.path) = 1
            /\ ops[f.n.path[1]].kind = "extract"
            /\ f.urls = <<<<"http://h", "/", "2nd">>>>
            /\ f.log[2].req.url = <<"http://h", "/", "2nd">>

\* the path of a URL as URL.String writes it after a host
RootedPath(path) ==
    IF Len(path) > 0 /\ path[1] # "/" THEN <<"/">> \o path ELSE path

\* C13: after a hop the URL it gave is made absolute against rootUri: an
\* absolute one is kept as it is, a relative one gets the scheme, the host
\* and the credentials of rootUri, whatever the URL of the resource it was
\* found in, and keeps its path.
NormalisedAgainstRoot ==
    [][\A c \in Callers, res \in Docs :
           LET f == frame[c]
               r == Fetch(ops[CurrentOp(f)], res)
               cur == UrlParse(r.val)
               root == UrlParse(f.n.rootUri)
               next == UrlParse(frame'[c].url)
           IN  (f.pc = "hop" /\ ~IsErr(r.err) /\ cur.ok /\ HopRecv(c, res))
               => IF IsAbs(cur) THEN frame'[c].url = r.val
                  ELSE /\ next.ok
                       /\ next.scheme = root.scheme
                       /\ next.host = root.host
                       /\ next.user = root.user
                       /\ next.path = RootedPath(cur.path)]_vars

\* a relative link found in a resource of another host was resolved against
\* the root
RelativeResolvedAgainstRoot ==
    \E c \in Callers :
        /\ frame[c].n.rootUri = RootUri
        /\ frame[c].urls = <<<<"http://g", "/", "a", "/", "1">>,
                             <<"http://h", "/", "2nd">>>>

\* the terminal request of the call of frame f, once it was sent
TerminalSent(f) == f.pc \in {"terminal", "done"} /\ Len(f.log) > 0 /\ f.log[Len(f.log)].hop = 0
TerminalOf(f) == f.log[Len(f.log)].req

DocumentedMethod ==
    [m \in {"Get", "Options", "Delete", "Post", "Put", "Patch"} |->
        CASE m = "Get" -> "GET"
          [] m = "Options" -> "OPTIONS"
          [] m = "Delete" -> "DELETE"
          [] m = "Post" -> "POST"
          [] m = "Put" -> "PUT"
          [] m = "Patch" -> "PATCH"]

\* C15: Get, Options, Delete, Post, Put and Patch send one terminal request,
\* with the method GET, OPTIONS, DELETE, POST, PUT and PATCH; Get, Options
\* and Delete send no body and no Content-Type, Post, Put and Patch send
\* the body with the Content-Type they were given.
MethodsAsDocumented ==
    \A c \in Callers :
        LET f == frame[c]
        IN  (TerminalSent(f) /\ f.method \in DOMAIN DocumentedMethod)
            => /\ Cardinality({j \in 1..Len(f.log) : f.log[j].hop = 0}) = 1
               /\ TerminalOf(f).method = DocumentedMethod[f.method]
               /\ TerminalOf(f).body = (f.method \in {"Post", "Put", "Patch"})
               /\ TerminalOf(f).header["Content-Type"] =
                      IF f.method \in {"Post", "Put", "Patch"}
                      THEN <<BodyType>> ELSE <<>>

\* a Put was answered
PutAnswered ==
    \E c \in Callers :
        /\ frame[c].pc = "done"
        /\ frame[c].method = "Put"
        /\ frame[c].resp # NoResponse
        /\ TerminalOf(frame[c]).method = "PUT"
        /\ TerminalOf(frame[c]).header["Content-Type"] = <<BodyType>>

\* http.Header.Get: the first value of the name, "" when there is none
HeaderGet(h, k) == IF h[k] = <<>> THEN "" ELSE h[k][1]

\* C16: in a terminal request a header handed to the call overrides the
\* session header of the same name: the value the request has for that
\* name is the one of the call.
CallHeaderOverridesSession ==
    \A c \in Callers :
        LET f == frame[c]
        IN  \A j \in 1..Len(f.headers), k \in HNames :
                (TerminalSent(f) /\ f.headers[j][k] # <<>>)
                    => HeaderGet(TerminalOf(f).header, k) = HeaderGet(f.headers[j], k)

\* C17: every request given to the client, hop fetch or terminal request,
\* has the header Accept: application/hal+json, application/json, whatever
\* session, step or call headers it also has.
AcceptOnEveryRequest ==
    \A c \in Callers :
        \A j \in 1..Len(frame[c].log) :
            HeaderGet(frame[c].log[j].req.header, "Accept") = AcceptValue

\* a call with a session header and an Accept of its own sent a hop fetch
\* and its terminal request
AcceptSentWithOthers ==
    \E c \in Callers :
        LET f == frame[c]
        IN  /\ f.pc = "done"
            /\ Len(f.log) = 2
            /\ f.sess0["X"] # <<>>
            /\ TerminalOf(f).header["Accept"] = <<AcceptValue, "text/plain">>

\* the session header maps the navigators hold
SessionMaps == {navs[j].sessionHeader : j \in 1..Len(navs)}

TransportErrorVerbatim ==
    [][\A c \in Callers :
           /\ (frame[c].pc = "hop" /\ HopRecv(c, Failure("transportErr")))
                  => frame'[c].err = TransportError
           /\ (frame[c].pc = "terminal" /\ TerminalRecv(c, Failure("transportErr")))
                  => frame'[c].err = TransportError]_vars

\* C20: when Unmarshal returns, with or without an error, no body of a
\* response obtained during the call is open: not the body of a hop fetch,
\* not the body of the final GET.  (A call that fails in a hop returns
\* before the terminal method comes into play: its method is not set.)
UnmarshalClosesBodies ==
    \A c \in Callers :
        LET f == frame[c]
        IN  (f.pc = "done" /\ f.method \in {"", "Unmarshal"})
            => \A j \in 1..Len(f.log) : f.log[j].resBody # "open"

\* Unmarshal returned a read error for the final GET after a hop, with both
\* bodies closed
UnmarshalFailedClosed ==
    \E c \in Callers :
        LET f == frame[c]
        IN  /\ f.pc = "done"
            /\ f.method = "Unmarshal"
            /\ f.err = ReadError
            /\ Len(f.log) = 2
            /\ f.log[1].resBody = "closed"
            /\ f.log[2].resBody = "closed"

\* ------------------------------------------------------------ links
\* the member named k of a JSON object
HasMember(obj, k) == \E i \in 1..Len(obj.members) : obj.members[i].k = k
MemberOf(obj, k) ==
    obj.members[CHOOSE i \in 1..Len(obj.members) : obj.members[i].k = k].v

\* j is the JSON object of the link
IsLinkObject(j, link) ==
    /\ j.t = "object"
    /\ HasMember(j, "href") /\ MemberOf(j, "href") = JString(link.Href)
    /\ link.Templated
           <=> HasMember(j, "templated") /\ MemberOf(j, "templated") = JBool(TRUE)

\* the value written for the relation into the `_links` member
Written(rel) == MemberOf(MemberOf(lk.json, "_links"), rel)

\* C21: a LinkSet of one Link is written as the JSON object of that link, not
\* as an array; a LinkSet of two or more Links is written as a JSON array of
\* the objects of its links, in the order of the LinkSet.
SingleObjectElseArray ==
    lk.call = "Marshal" =>
        \A rel \in DOMAIN lk.links :
            LET set == lk.links[rel]
            IN  /\ Len(set) = 1 => IsLinkObject(Written(rel), set[1])
                /\ Len(set) >= 2 =>
                       /\ Written(rel).t = "array"
                       /\ Len(Written(rel).elems) = Len(set)
                       /\ \A i \in 1..Len(set) :
                              IsLinkObject(Written(rel).elems[i], set[i])

\* a relation of one link and a relation of two different links were written
OneAndTwoWritten ==
    /\ lk.call = "Marshal"
    /\ \E r1 \in DOMAIN lk.links, r2 \in DOMAIN lk.links :
           /\ Len(lk.links[r1]) = 1
           /\ Len(lk.links[r2]) = 2
           /\ lk.links[r2][1] # lk.links[r2][2]

\* C22: reading back what json.Marshal wrote for a Links gives a Links with
\* the same relation names and, under each, the same links in the same
\* order, and no error.
RoundTrip ==
    [][(lk.call = "Marshal" /\ lk'.call = "Unmarshal" /\ lk'.json = lk.json)
           => /\ ~IsErr(lk'.ret.err)
              /\ DOMAIN lk'.links = DOMAIN lk.links
              /\ \A rel \in DOMAIN lk.links :
                     /\ Len(lk'.links[rel]) = Len(lk.links[rel])
                     /\ \A i \in 1..Len(lk.links[rel]) :
                            lk'.links[rel][i] = lk.links[rel][i]]_vars

\* a Links with a relation of one link and a relation of two links was read
\* back from its own serialisation
ReadBackOneAndTwo ==
    /\ lk.call = "Unmarshal"
    /\ lk.json = LinksMarshal(lk.links)
    /\ \E r1 \in DOMAIN lk.links, r2 \in DOMAIN lk.links :
           Len(lk.links[r1]) = 1 /\ Len(lk.links[r2]) = 2

\* C23: when the single link object cannot be decoded and the JSON value is
\* not an array, LinkSet.UnmarshalJSON returns the error of that first
\* attempt; the array attempt decides only for a JSON array.
FirstErrorUnlessArray ==
    lk.call = "UnmarshalJSON" =>
        LET first == decodeLink(lk.json, Link(EmptyString))
        IN  IsErr(first.err) /\ lk.json.t # "array" => lk.ret.err = first.err

\* C24: every relation of a Links, however the Links was built or read, has
\* at least one link.
NoEmptyLinkSet == \A rel \in DOMAIN lk.links : Len(lk.links[rel]) >= 1

\* Add appends: the links stored under rel before the call stay where they
\* were, the given links follow them in the order given, and the other
\* relations are untouched
Appended(before, after, rel, links) ==
    LET old == IF rel \in DOMAIN before THEN before[rel] ELSE <<>>
    IN  /\ DOMAIN after = DOMAIN before \cup {rel}
        /\ Len(after[rel]) = Len(old) + Len(links)
        /\ \A i \in 1..Len(old) : after[rel][i] = old[i]
        /\ \A i \in 1..Len(links) : after[rel][Len(old) + i] = links[i]
        /\ \A r \in DOMAIN before \ {rel} : after[r] = before[r]

\* C25: Add(rel, links...) never replaces or removes a link stored under
\* rel: afterwards the LinkSet of rel is its previous content, empty when
\* rel was absent, followed by the given links in argument order.
AddAppends ==
    [][\A rel \in LinkRels, links \in AddChoices :
           lk'.call = "Add" /\ lk'.rel = rel /\ Add(rel, links)
               => Appended(lk.links, lk'.links, rel, links)]_vars

\* a relation holds three links, gathered by more than one call
AddedToExisting ==
    /\ lk.call = "Add"
    /\ Len(lk.links[lk.rel]) = 3
    /\ lk.links[lk.rel][1] # lk.links[lk.rel][2]

\* C26: HrefParams(rel, params) returns the expansion of the href of the
\* first link of the relation, whatever links follow it, and the empty string
\* with no error when the relation is absent; Href(rel) is HrefParams with no
\* parameters.
FirstLinkExpanded ==
    lk.call = "HrefParams" =>
        /\ lk.rel \notin DOMAIN lk.links => lk.ret = Ok(EmptyString)
        /\ lk.rel \in DOMAIN lk.links /\ Len(lk.links[lk.rel]) >= 1 =>
               lk.ret = Ok(Expand(lk.links[lk.rel][1].Href, lk.params))
        /\ lk.params = NoParams => Href(lk.links, lk.rel) = lk.ret

\* HrefParams was asked for a relation of two links with different hrefs,
\* with parameters the first one uses
FirstOfTwoExpanded ==
    /\ lk.call = "HrefParams"
    /\ lk.rel \in DOMAIN lk.links
    /\ Len(lk.links[lk.rel]) = 2
    /\ lk.links[lk.rel][1].Href # lk.links[lk.rel][2].Href
    /\ "q" \in DOMAIN lk.params
    /\ lk.ret.val # lk.links[lk.rel][1].Href
    /\ lk.ret.val # lk.links[lk.rel][2].Href

\* the literal part of a template, and the variables its expressions name
IsExpression(tok) == tok \in QueryVars \cup TemplateVars
Literal(template) == SelectSeq(template, LAMBDA tok : ~IsExpression(tok))
Variables(template) ==
    UNION {IF template[i] = "{?q}" THEN {"q"}
           ELSE IF template[i] = "{?q,page}" THEN {"q", "page"}
           ELSE IF template[i] = "{id}" THEN {"id"} ELSE {} :
           i \in 1..Len(template)}

MemberNames(obj) == {obj.members[i].k : i \in 1..Len(obj.members)}

\* C28: a Links without relations is written without a `_links` member; a
\* Links with relations is written with a `_links` object that has one member
\* for each of its relations and no other.
LinksOmittedWhenEmpty ==
    lk.call = "Marshal" =>
        /\ DOMAIN lk.links = {} => ~HasMember(lk.json, "_links")
        /\ DOMAIN lk.links # {} =>
               /\ HasMember(lk.json, "_links")
               /\ MemberOf(lk.json, "_links").t = "object"
               /\ MemberNames(MemberOf(lk.json, "_links")) = DOMAIN lk.links
               /\ Len(MemberOf(lk.json, "_links").members)
                      = Cardinality(DOMAIN lk.links)

\* a Links without relations was written
EmptyLinksWritten ==
    /\ lk.call = "Marshal"
    /\ DOMAIN lk.links = {}
    /\ lk.json = JObject(<<>>)

\* C29: the link that Link(rel, href) stores has Templated true when the href
\* holds a template expression and false when it holds none.
LinkSetsTemplated ==
    [][\A rel \in LinkRels, href \in HrefChoices :
           lk'.call = "Add" /\ lk'.rel = rel /\ LinkHref(rel, href)
               => LET set == lk'.links[rel]
                  IN  set[Len(set)].Templated
                          <=> \E i \in 1..Len(href) : IsExpression(href[i])]_vars

\* ------------------------------------------------------------ httpheaders
\* C30: the headers given to AddHeaders are on the terminal request of every
\* terminal method called on the navigator AddHeaders returned or on one
\* derived from it by Follow, Followf, Extract or a session-header setter.
AddedHeadersOnTerminalRequest ==
    \A c \in Callers :
        TerminalSent(frame[c]) =>
            \A j \in Lineage(frame[c].ix) :
                \A k \in DOMAIN navs[j].httpheaders :
                    navs[j].httpheaders[k]
                        \in Range(TerminalOf(frame[c]).header[k])

\* ------------------------------------------------------------ chaining
\* the navigator a chaining step has just returned, and its receiver
Result == navs'[Len(navs')]
Receiver == navs[parent'[Len(navs')]]

\* the result has the receiver's path followed by one new operation of this
\* kind, relation and parameters, with no header of its own
PathExtendedBy(kind, rel, params) ==
    /\ Len(Result.path) = Len(Receiver.path) + 1
    /\ \A j \in 1..Len(Receiver.path) : Result.path[j] = Receiver.path[j]
    /\ Result.path[Len(Result.path)] = Len(ops')
    /\ ops'[Len(ops')] = [kind |-> kind, rel |-> rel, params |-> params,
                          header |-> EmptyHeader]

\* C31: Follow, Followf and Extract return a navigator whose path is the
\* receiver's path followed by one new operation carrying the relation (and
\* the parameters of Followf) and no header; its rootUri, client and session
\* headers are those of the receiver.
ChainingAppendsOneOperation ==
    [][Len(ops') = Len(ops) + 1 =>
           /\ Len(navs') = Len(navs) + 1
           /\ Result.rootUri = Receiver.rootUri
           /\ Result.HttpClient = Receiver.HttpClient
           /\ sess'[Result.sessionHeader] = sess[Receiver.sessionHeader]
           /\ \A i \in Indices, rel \in Rels :
                  /\ Follow(i, rel) => PathExtendedBy("follow", rel, NoParams)
                  /\ Extract(i, rel) => PathExtendedBy("extract", rel, NoParams)
                  /\ Followf(i, "b", IdParams)
                         => PathExtendedBy("follow", "b", IdParams)]_vars

\* a navigator of two operations was derived by Followf from a navigator
\* of one
TwoOperationsChained ==
    \E i \in 1..Len(navs) :
        /\ Len(navs[i].path) = 2
        /\ parent[i] # 0
        /\ navs[parent[i]].path = <<navs[i].path[1]>>
        /\ ops[navs[i].path[2]].params = IdParams

\* the result has the receiver's path, rootUri and client, and the session
\* headers of the receiver except for the values of the name k
SessionChangedAt(k, values) ==
    /\ Result.path = Receiver.path
    /\ Result.rootUri = Receiver.rootUri
    /\ Result.HttpClient = Receiver.HttpClient
    /\ sess'[Result.sessionHeader][k] = values
    /\ \A other \in ReqHNames \ {k} :
           sess'[Result.sessionHeader][other] = sess[Receiver.sessionHeader][other]

SessionAndCallValues(f) ==
    f.sess0["X"] \o (IF f.headers = <<>> THEN <<>> ELSE f.headers[1]["X"])

\* C34: SetRequestHeader and AddRequestHeader on a navigator without path
\* change nothing, and the requests of such a navigator carry no value
\* beside those of its session headers and of the call.
PathlessSettersDoNothing ==
    [][/\ \A c \in {1}, i \in Indices, k \in HNames, v \in HVals :
              /\ Len(navs[i].path) = 0
              /\ SetRequestHeader(c, i, k, v) \/ AddRequestHeader(c, i, k, v)
              => UNCHANGED vars
       /\ \A c \in {1} :
              TerminalSent(frame'[c]) /\ frame'[c].n.path = <<>> =>
                  TerminalOf(frame'[c]).header["X"]
                      = SessionAndCallValues(frame'[c])]_vars

\* request headers were set through a navigator with a path, and a call on
\* a navigator without path sent its request without any value for X
PathlessRequestWithoutHeader ==
    /\ \E o \in 1..Len(ops) : ops[o].header["X"] # <<>>
    /\ TerminalSent(frame[1])
    /\ frame[1].n.path = <<>>
    /\ TerminalOf(frame[1]).header["X"] = <<>>

\* ------------------------------------------------------------ calling twice
\* the server answered the first j - 1 hops of both calls the same way: they
\* resolved to the same URLs
SameAnswersBefore(f, g, j) ==
    \A m \in 1..(j - 1) :
        m <= Len(f.urls) /\ m <= Len(g.urls) /\ f.urls[m] = g.urls[m]

\* C35: a terminal call leaves the navigator as it was: a second call on the
\* same navigator finds the same rootUri, path, client and session headers,
\* and as long as the server answers as it did the first time, it issues the
\* same requests with the same headers.
SecondCallRepeatsFirst ==
    LET f == frame[1]
        g == frame[2]
    IN  f.pc = "done" /\ g.pc \notin {"idle", "write"} /\ g.ix = f.ix =>
            /\ navs[f.ix] = f.n
            /\ g.n = f.n
            /\ g.sess0 = f.sess0
            /\ \A j \in 1..Len(g.log) :
                   /\ j <= Len(f.log)
                   /\ SameAnswersBefore(f, g, j)
                   /\ g.log[j].hop = 0 => g.headers = f.headers
                   => g.log[j].req = f.log[j].req

\* both calls followed a relation with a request header, under a session
\* header, and sent their terminal request
TwoCallsOfTwoRequests ==
    /\ frame[1].pc = "done" /\ frame[2].pc = "done"
    /\ frame[2].ix = frame[1].ix
    /\ Len(frame[1].log) = 2 /\ Len(frame[2].log) = 2
    /\ frame[1].log[1].req.header["X"] # <<>>
    /\ frame[1].sess0["X"] # <<>>
    /\ \A j \in 1..2 : frame[2].log[j].req = frame[1].log[j].req

\* ------------------------------------------------- extract without self
\* C36: an Extract step whose embedded resource is in the body but has no
\* self link ends the call with an error: the resolution does not go on to
\* another step or to the terminal request.
ExtractWithoutSelfFails ==
    [][\A c \in Callers, res \in Docs :
           LET f == frame[c]
               link == ops[CurrentOp(f)]
           IN  (/\ f.pc = "hop"
                /\ link.kind = "extract"
                /\ link.rel \in DOMAIN res.embedded
                /\ "self" \notin DOMAIN res.embedded[link.rel]
                /\ HopRecv(c, res))
               => /\ frame'[c].pc = "done"
                  /\ IsErr(frame'[c].err)
                  /\ frame'[c].resp = NoResponse]_vars

\* ------------------------------------------------------ href never panics
\* C37: HrefParams returns a string or an error for every Links that Add or
\* deserialisation made: it never panics.
HrefParamsNeverPanics ==
    lk.call = "HrefParams" => lk.ret.err # Panic

\* --------------------------------------------------------- absolute URLs
\* net/url: the URL has a scheme and a host
HasSchemeAndHost(s) ==
    LET u == UrlParse(s) IN u.ok /\ u.scheme # "" /\ u.host # ""

\* C38: the root URI being absolute, every request of a call after its
\* first one, each later hop and the terminal request, goes to a URL with a
\* scheme and a host.
LaterRequestsAbsolute ==
    \A c \in Callers :
        HasSchemeAndHost(frame[c].n.rootUri) =>
            \A j \in 2..Len(frame[c].log) :
                HasSchemeAndHost(frame[c].log[j].req.url)

\* the same for the calls whose hops gave no URL with a scheme and no host:
\* every request after the first goes to a URL with a scheme and a host
LaterRequestsAbsoluteOverHosts ==
    \A c \in Callers :
        /\ HasSchemeAndHost(frame[c].n.rootUri)
        /\ \A m \in 1..Len(frame[c].urls) :
               LET u == UrlParse(frame[c].urls[m]) IN u.scheme = "" \/ u.host # ""
        => \A j \in 2..Len(frame[c].log) :
               HasSchemeAndHost(frame[c].log[j].req.url)

\* ------------------------------------------------- add: other relations
\* the relations of after other than rel are those of before, each with the
\* LinkSet it had
OthersKept(before, after, rel) ==
    /\ DOMAIN after \ {rel} = DOMAIN before \ {rel}
    /\ \A r \in DOMAIN before \ {rel} : after[r] = before[r]

\* C39: Add(rel, links...) leaves the LinkSet of every other relation as it
\* was, in the Links it returns and in its receiver.
AddKeepsOtherRelations ==
    [][\A rel \in LinkRels, links \in AddChoices :
           lk'.call = "Add" /\ lk'.rel = rel /\ Add(rel, links)
               => /\ OthersKept(lk.links, lk'.links, rel)
                  /\ OthersKept(lk.links, lk'.recv, rel)]_vars

\* Add was called on a Links that held two links under another relation,
\* and its receiver shares the map of the result
AddedBesideAnotherRelation ==
    /\ lk.call = "Add"
    /\ lk.recv = lk.links
    /\ \E r \in DOMAIN lk.links \ {lk.rel} : Len(lk.links[r]) = 2
    /\ Len(lk.links[lk.rel]) = 1

\* ------------------------------------------- package navigator: chains
\* C32: the Navigator that LinkExpand(rel, params) and Link(rel) return has
\* the receiver's links to navigate, in order, followed by a link of rel and
\* params: every Navigator holds the links and params of its chain.
LinksToNavigateAsGiven ==
    \A i \in 1..Len(pkg.navs) : pkg.navs[i].linksToNavigate = pkg.given[i]

====
